---- MODULE Spec2Model ----
(***************************************************************************)
(* State-machine model of src/soop_recorder.py: the SoopRecorder polling   *)
(* loop (run), the probe / token / resolution steps of                     *)
(* check_stream_status, and the supervision of the streamlink child        *)
(* process by record_stream.                                               *)
(*                                                                         *)
(* Python strings are sequences of one-character strings.  A JSON value    *)
(* read out of a response is a record [t, s]: t = "str" with the string s  *)
(* or t = "null" (Python None).  A key that may be absent from a JSON      *)
(* object is an option: <<>> when absent, <<v>> when present with value v. *)
(* Exceptions are named by their Python class.                             *)
(***************************************************************************)
EXTENDS Integers, Sequences, FiniteSets, TLC

VARIABLES
    proxy_str,        \* self.proxy_str: None or a string
    poll_interval,    \* self.poll_interval, seconds
    streamer_name,    \* self.streamer_name
    session,          \* self.session: None or <<[open, proxies]>>
    temp_session,     \* the `async with AsyncSession(...)` of the current call: None or <<[open, proxies]>>
    pc,               \* the await the main task is suspended at
    exit,             \* how run() ended: "none", "break", or the class of the exception leaving it
    exit_status,      \* the status given to sys.exit, <<>> while none was given
    sleep_for,        \* argument of the asyncio.sleep in progress
    sleep_left,       \* seconds of that sleep still to elapse
    broad_no,         \* check_stream_status local
    title,            \* check_stream_status local
    aid,              \* check_stream_status local
    cmd,              \* record_stream local: the streamlink command being launched, <<>> if none
    children,         \* streamlink child processes spawned and not yet exited
    calls,            \* observation: outbound calls started in the current loop iteration
    seen,             \* observation: the responses this loop iteration received
    after,            \* observation: what the iteration did before its sleep: "recorded",
                      \* "norecord", or "check_raised" / "record_raised" (who raised into run)
    cancel_requested, \* observation: the task was cancelled
    recorder_missing, \* observation: launching streamlink raised FileNotFoundError
    cf,               \* clean_filename applied on its own: the argument and the results so far
    wg_process,       \* main's wireproxy helper: "none", "running", "terminating", "exited", "killed"
    wait_left         \* seconds left of wg_process.wait(timeout=3)

vars == <<cf, wg_process, wait_left, proxy_str, poll_interval, streamer_name, session, temp_session, pc,
          exit, exit_status, sleep_for, sleep_left, broad_no, title, aid, cmd,
          children, calls, seen, after, cancel_requested, recorder_missing>>

\* ---------------------------------------------------------------- bounds

MaxPoll == 1
MaxTitleLen == 2
MaxChildren == 2
MaxNameLen == 3

\* ------------------------------------------------------- program constants

COOLDOWN == 60
EXIT_MISSING == 1
WAIT_TIMEOUT == 3
RESULT_OK == 1

\* ---------------------------------------------------------- Python values

None == <<>>
Some(v) == <<v>>
JNull == [t |-> "null", s |-> <<>>]
JStr(s) == [t |-> "str", s |-> s]

\* Variant: `is not None` instead of truthiness.
Truthy_NotNone(v) == v.t = "str"

\* bool(v) of a value read from JSON: None and "" are falsy.
Truthy(v) == v.t = "str" /\ v.s # <<>>

\* str(v) as an f-string formats it.
Format(v) == IF v.t = "str" THEN v.s ELSE <<"N", "o", "n", "e">>

StrUpTo(alphabet, n) == UNION {[1..k -> alphabet] : k \in 0..n}

\* s contains sub as a contiguous substring.
Contains(s, sub) ==
    \E i \in 1..(Len(s) - Len(sub) + 1) : SubSeq(s, i, i + Len(sub) - 1) = sub

\* ------------------------------------------------------------ the inputs

StreamerId == <<"s">>
OutputDir == <<"o">>
ProxyChoices == {None, Some(""), Some("socks5://127.0.0.1:1080")}
WgProxy == Some("socks5://127.0.0.1:1080")
TitleAlphabet == {"a", "/"}
Titles == {JStr(s) : s \in StrUpTo(TitleAlphabet, MaxTitleLen)} \cup {JNull}
Nicks == {JStr(<<"n", ":">>), JNull}
BroadNos == {JStr(<<"7">>)}
Aids == {JStr(<<"k">>), JStr(<<>>), JNull}
ViewUrls == {JStr(<<"u">>), JStr(<<"u", "?">>), JStr(<<>>), JNull}
Timestamps == {<<"2", "0", "2", "6">>}
ExitCodes == {0, 1}
NameAlphabet == {"a", ".", "/", "\\", ":"}
Names == StrUpTo(NameAlphabet, MaxNameLen)

Opt(S) == {None} \cup {Some(v) : v \in S}
Get(opt) == IF opt = None THEN JNull ELSE opt[1]

\* Responses of the station endpoint as check_stream_status tells them apart.
MetaResponses ==
    {[outcome |-> "transport", top |-> "none", broad |-> "absent", broad_no |-> None,
      broad_title |-> None, station |-> "absent", user_nick |-> None],
     [outcome |-> "undecodable", top |-> "none", broad |-> "absent", broad_no |-> None,
      broad_title |-> None, station |-> "absent", user_nick |-> None],
     [outcome |-> "ok", top |-> "other", broad |-> "absent", broad_no |-> None,
      broad_title |-> None, station |-> "absent", user_nick |-> None]}
    \cup
    {r \in [outcome : {"ok"}, top : {"object"},
            broad : {"absent", "null", "empty", "object", "string"},
            broad_no : Opt(BroadNos), broad_title : Opt(Titles),
            station : {"absent", "object", "other"}, user_nick : Opt(Nicks)] :
        /\ r.broad # "object" => (r.broad_no = None /\ r.broad_title = None)
        /\ r.station # "object" => r.user_nick = None}

\* Responses of the player_live_api endpoint as _get_aid_token tells them apart.
TokenResponses ==
    {[outcome |-> "transport", body |-> "none", channel |-> "absent", result |-> None, aid |-> None],
     [outcome |-> "ok", body |-> "notjson", channel |-> "absent", result |-> None, aid |-> None],
     [outcome |-> "ok", body |-> "other", channel |-> "absent", result |-> None, aid |-> None]}
    \cup
    {r \in [outcome : {"ok"}, body : {"object"}, channel : {"absent", "object", "other"},
            result : Opt({0, RESULT_OK}), aid : Opt(Aids)] :
        r.channel # "object" => (r.result = None /\ r.aid = None)}

\* Responses of the broad_stream_assign endpoint.
ViewResponses ==
    {[outcome |-> "transport", body |-> "none", view_url |-> None],
     [outcome |-> "undecodable", body |-> "none", view_url |-> None],
     [outcome |-> "ok", body |-> "other", view_url |-> None]}
    \cup [outcome : {"ok"}, body : {"object"}, view_url : Opt(ViewUrls)]

SpawnOutcomes == {"ok", "FileNotFoundError", "Exception"}

\* ------------------------------------------------------- pure functions

Reserved == {"\\", "/", "*", "?", ":", "\"", "<", ">", "|"}
NotReserved(c) == c \notin Reserved

\* Variant: re.sub with count=1 deletes the first reserved character only.
clean_filename_FirstOnly(filename) ==
    LET hits == {i \in 1..Len(filename) : filename[i] \in Reserved}
        first == IF hits = {} THEN 0 ELSE CHOOSE i \in hits : \A j \in hits : i <= j
    IN IF first = 0 THEN filename
       ELSE SubSeq(filename, 1, first - 1) \o SubSeq(filename, first + 1, Len(filename))

\* clean_filename on a str: re.sub deletes every reserved character.
clean_filename(filename) == SelectSeq(filename, NotReserved)

\* Variant: CancelledError derives from Exception, as before Python 3.8.
IsException_Py37(exc) == exc # "SystemExit"

\* The except clauses `except Exception` match: every class but the
\* BaseException-only ones (CancelledError, SystemExit).
IsException(exc) == exc \notin {"CancelledError", "SystemExit"}

\* __aenter__: the proxies given to the long-lived session.
SessionProxies(p) == IF p # None /\ p[1] # "" THEN p ELSE None

\* Variant: close() leaves the session as it is.
Closed_Leak(sess) == sess

\* Variant: the short-lived sessions are given the proxies too.
TempProxies_Shared(p) == SessionProxies(p)

\* The AsyncSession(impersonate=...) of check_stream_status is given no proxies.
TempProxies(p) == None

\* A session sends through its proxies when it has some.
RouteOf(proxies) == IF proxies # None THEN "proxy" ELSE "direct"

OpenSession(proxies) == Some([open |-> TRUE, proxies |-> proxies])
Closed(sess) == IF sess = None THEN None ELSE Some([sess[1] EXCEPT !.open = FALSE])

Call(kind, proxies) == [kind |-> kind, route |-> RouteOf(proxies)]

\* Variant: the nick of the response is never read.
StationNick_IdOnly(r) == JStr(StreamerId)

\* Line 116: the nick of the response, the streamer id when it has none.
StationNick(r) ==
    IF r.station = "object" /\ r.user_nick # None THEN r.user_nick[1] ELSE JStr(StreamerId)

\* Variant: the token is requested for every decoded station response.
AfterStation_NoBroadCheck(r) ==
    IF r.outcome # "ok"
    THEN [go |-> "token", exc |-> "none", set_name |-> FALSE]
    ELSE [go |-> "token", exc |-> "none", set_name |-> r.station # "other"]

\* check_stream_status from the station response to its first return, raise
\* or the token request.  set_name: whether line 116 assigned streamer_name.
AfterStation(r) ==
    IF r.outcome # "ok"
    THEN [go |-> "return", exc |-> "none", set_name |-> FALSE]
    ELSE IF r.top # "object"
    THEN [go |-> "raise", exc |-> "AttributeError", set_name |-> FALSE]
    ELSE IF r.station = "other"
    THEN [go |-> "raise", exc |-> "AttributeError", set_name |-> FALSE]
    ELSE IF r.broad \in {"absent", "null", "empty"}
    THEN [go |-> "return", exc |-> "none", set_name |-> TRUE]
    ELSE IF r.broad = "string"
    THEN [go |-> "raise", exc |-> "TypeError", set_name |-> TRUE]
    ELSE IF r.broad_no = None \/ r.broad_title = None
    THEN [go |-> "raise", exc |-> "KeyError", set_name |-> TRUE]
    ELSE [go |-> "token", exc |-> "none", set_name |-> TRUE]

\* The exception, if any, raised inside _get_aid_token's try block.
TokenRaises(r) ==
    IF r.outcome # "ok" THEN "RequestException"
    ELSE IF r.body = "other" THEN "AttributeError"
    ELSE IF r.body = "object" /\ r.channel = "other" THEN "AttributeError"
    ELSE IF r.body = "object" /\ r.channel = "object" /\ r.result = Some(RESULT_OK) /\ r.aid = None
    THEN "KeyError"
    ELSE "none"

\* Variant: the AID is returned whatever RESULT says.
GetAidToken_NoResultCheck(r) ==
    IF TokenRaises(r) # "none" THEN JNull
    ELSE IF r.body = "notjson" THEN JNull
    ELSE IF r.channel = "object" /\ r.aid # None THEN r.aid[1]
    ELSE JNull

\* _get_aid_token's return value (Python None is JNull).
GetAidToken(r) ==
    IF TokenRaises(r) # "none" THEN JNull
    ELSE IF r.body = "notjson" THEN JNull
    ELSE IF r.channel = "object" /\ r.result = Some(RESULT_OK) THEN r.aid[1]
    ELSE JNull

\* Variant: the token is appended as a further query parameter.
M3u8Url_Amp(view_url, a) == Format(view_url) \o <<"&", "a", "i", "d", "=">> \o Format(a)

\* The playback address of line 140.
M3u8Url(view_url, a) == Format(view_url) \o <<"?", "a", "i", "d", "=">> \o Format(a)

\* Variant: a stream_info is returned for every decoded resolution response.
StreamInfo_NoUrlCheck(r, a, t) ==
    IF r.outcome = "ok" /\ r.body = "object"
    THEN Some([m3u8_url |-> M3u8Url(Get(r.view_url), a), title |-> t])
    ELSE None

\* check_stream_status from the resolution response to its return value:
\* None or <<[m3u8_url, title]>>.
StreamInfo(r, a, t) ==
    IF r.outcome = "ok" /\ r.body = "object" /\ r.view_url # None /\ Truthy(r.view_url[1])
    THEN Some([m3u8_url |-> M3u8Url(r.view_url[1], a), title |-> t])
    ELSE None

\* record_stream, line 155: the file name, and the path under output_dir.
\* (No part holds a separator once cleaned, so pathlib joins by one "/".)
OutputName(name, timestamp, ttl) ==
    <<"[">> \o name \o <<"]", "_">> \o timestamp \o <<"_">> \o ttl \o <<".", "t", "s">>
OutputPath(name, timestamp, ttl) == OutputDir \o <<"/">> \o OutputName(name, timestamp, ttl)

\* record_stream, lines 151-172: the exception of clean_filename on a
\* non-str, else the streamlink command (which names no proxy).
PrepRaises(info, name) == IF info.title.t # "str" \/ name.t # "str" THEN "TypeError" ELSE "none"
StreamlinkCmd(info, name, timestamp) ==
    [url |-> info.m3u8_url,
     out |-> OutputPath(clean_filename(name.s), timestamp, clean_filename(info.title.s)),
     proxies |-> None]

\* Variant: record_stream has no catch-all handler.
RecordOnException_NoCatchAll(exc) == IF exc = "FileNotFoundError" THEN "SystemExit" ELSE exc

\* record_stream's handlers, lines 191-195, on an exception of its try block.
RecordOnException(exc) ==
    IF exc = "FileNotFoundError" THEN "SystemExit"
    ELSE IF IsException(exc) THEN "none"
    ELSE exc

\* Variant: run has no catch-all handler.
RunOnException_NoCatchAll(exc) == IF exc = "CancelledError" THEN "break" ELSE "propagate"

\* Variant: run's catch-all is a bare `except:` and takes SystemExit too.
RunOnException_BareExcept(exc) == IF exc = "CancelledError" THEN "break" ELSE "retry"

\* run's handlers, lines 208-212, on an exception of its try block.
RunOnException(exc) ==
    IF exc = "CancelledError" THEN "break"
    ELSE IF IsException(exc) THEN "retry"
    ELSE "propagate"

\* Variant: record_stream returns without awaiting the process.
AfterSpawn_NoWait == "cooldown"

\* What record_stream does once create_subprocess_exec returned a process:
\* it awaits communicate().
AfterSpawn == "recording"

\* Variant: the sleep of the catch-all handler is the cooldown.
SleepSeconds_ErrCooldown(kind, interval) == IF kind = "poll_sleep" THEN interval ELSE COOLDOWN

\* Variant: every sleep of run is the poll interval.
SleepSeconds_NoCooldown(kind, interval) == interval

\* The sleeps of run, lines 205, 207 and 212.
SleepSeconds(kind, interval) == IF kind = "cooldown" THEN COOLDOWN ELSE interval

Sleeps == {"cooldown", "poll_sleep", "err_sleep"}

\* ------------------------------------------------------- control transfer

NoneSeen == [meta |-> None, token |-> None, view |-> None]

\* The responses stay observed until the iteration's recording attempt is over.
SeenAt(p, v) == IF p = "cooldown" THEN NoneSeen ELSE v

Goto(p) == pc' = p /\ UNCHANGED <<exit, sleep_for, sleep_left, after>>

\* await asyncio.sleep(...) at line 205 ("cooldown"), 207 ("poll_sleep") or
\* 212 ("err_sleep").
Sleep(kind, did) ==
    /\ pc' = kind
    /\ sleep_for' = SleepSeconds(kind, poll_interval)
    /\ sleep_left' = SleepSeconds(kind, poll_interval)
    /\ after' = did
    /\ UNCHANGED exit

\* run() is left: by `break` or by an exception no handler of it matches.
EndRun(how) ==
    /\ pc' = "run_end"
    /\ exit' = how
    /\ UNCHANGED <<sleep_for, sleep_left, after>>

\* An exception reaches the try block of run's loop body.
RaisedInTry(exc, from) ==
    IF RunOnException(exc) = "break" THEN EndRun("break")
    ELSE IF RunOnException(exc) = "retry" THEN Sleep("err_sleep", from)
    ELSE EndRun(exc)

\* check_stream_status returned None: line 207.
NotLive == Sleep("poll_sleep", "norecord")

\* Variant: the locals of check_stream_status outlive the call.
ClearLocals_Keep == UNCHANGED <<broad_no, title, aid>>

\* The locals of check_stream_status end with the call (lines 121-126).
ClearLocals == broad_no' = JNull /\ title' = JNull /\ aid' = JNull

\* Top of the loop body: check_stream_status opens its session and sends
\* the station request.
IssueProbe ==
    /\ Goto("probe")
    /\ temp_session' = OpenSession(TempProxies(proxy_str))
    /\ calls' = <<Call("probe", TempProxies(proxy_str))>>
    /\ seen' = NoneSeen
    /\ ClearLocals

\* The state of the recorder and of run.
run_state == <<proxy_str, poll_interval, streamer_name, session, temp_session, pc,
               exit, exit_status, sleep_for, sleep_left, broad_no, title, aid, cmd,
               children, calls, seen, after, cancel_requested, recorder_missing>>

\* clean_filename not under test.
NoClean == [arg |-> None, once |-> None, twice |-> None, path |-> None]

\* ------------------------------------------------------------------ Init

Init ==
    /\ \/ wg_process = "none" /\ proxy_str \in ProxyChoices
       \/ wg_process = "running" /\ proxy_str = WgProxy
    /\ wait_left = 0
    /\ poll_interval \in 0..MaxPoll
    /\ streamer_name = JStr(StreamerId)
    /\ session = None
    /\ temp_session = None
    /\ pc = "init"
    /\ exit = "none"
    /\ exit_status = None
    /\ sleep_for = 0
    /\ sleep_left = 0
    /\ broad_no = JNull
    /\ title = JNull
    /\ aid = JNull
    /\ cmd = None
    /\ children = <<>>
    /\ calls = <<>>
    /\ seen = NoneSeen
    /\ after = "none"
    /\ cancel_requested = FALSE
    /\ recorder_missing = FALSE
    /\ cf = NoClean

\* --------------------------------------------------------------- actions

\* main, line 272: __aenter__ creates the long-lived session.
AEnter ==
    /\ pc = "init"
    /\ session' = OpenSession(SessionProxies(proxy_str))
    /\ Goto("entered")
    /\ UNCHANGED <<cf, wg_process, wait_left, proxy_str, poll_interval, streamer_name, temp_session, exit_status,
                   broad_no, title, aid, cmd, children, calls, seen,
                   cancel_requested, recorder_missing>>

\* main, line 278: run() starts and reaches its first await.
RunStart ==
    /\ pc = "entered"
    /\ IssueProbe
    /\ UNCHANGED <<cf, wg_process, wait_left, proxy_str, poll_interval, streamer_name, session, exit_status,
                   cmd, children, cancel_requested, recorder_missing>>

\* The station request completes (lines 108-126).
ProbeResponse(r) ==
    /\ pc = "probe"
    /\ temp_session' = Closed(temp_session)
    /\ streamer_name' = IF AfterStation(r).set_name THEN StationNick(r) ELSE streamer_name
    /\ IF AfterStation(r).go = "token"
       THEN /\ broad_no' = Get(r.broad_no)
            /\ title' = Get(r.broad_title)
            /\ aid' = JNull
            /\ calls' = Append(calls, Call("token", session[1].proxies))
            /\ Goto("token")
       ELSE /\ ClearLocals
            /\ calls' = calls
            /\ IF AfterStation(r).go = "raise"
               THEN RaisedInTry(AfterStation(r).exc, "check_raised")
               ELSE NotLive
    /\ seen' = SeenAt(pc', [seen EXCEPT !.meta = Some(r)])
    /\ UNCHANGED <<cf, wg_process, wait_left, proxy_str, poll_interval, session, exit_status, cmd, children,
                   cancel_requested, recorder_missing>>

\* The token request completes (lines 85-101, then 127-135).
TokenResponse(r) ==
    /\ pc = "token"
    /\ IF Truthy(GetAidToken(r))
       THEN /\ aid' = GetAidToken(r)
            /\ temp_session' = OpenSession(TempProxies(proxy_str))
            /\ calls' = Append(calls, Call("resolve", TempProxies(proxy_str)))
            /\ Goto("resolve")
            /\ UNCHANGED <<broad_no, title>>
       ELSE /\ ClearLocals
            /\ NotLive
            /\ UNCHANGED <<temp_session, calls>>
    /\ seen' = SeenAt(pc', [seen EXCEPT !.token = Some(r)])
    /\ UNCHANGED <<cf, wg_process, wait_left, proxy_str, poll_interval, streamer_name, session, exit_status, cmd,
                   children, cancel_requested, recorder_missing>>

\* The resolution request completes (lines 135-147); with a stream_info,
\* run calls record_stream, which runs to create_subprocess_exec (151-175).
ViewResponse(r, timestamp) ==
    /\ pc = "resolve"
    /\ temp_session' = Closed(temp_session)
    /\ ClearLocals
    /\ IF StreamInfo(r, aid, title) = None
       THEN /\ NotLive
            /\ UNCHANGED <<cmd, calls>>
       ELSE IF PrepRaises(StreamInfo(r, aid, title)[1], streamer_name) # "none"
       THEN /\ RaisedInTry(PrepRaises(StreamInfo(r, aid, title)[1], streamer_name), "record_raised")
            /\ UNCHANGED <<cmd, calls>>
       ELSE /\ cmd' = Some(StreamlinkCmd(StreamInfo(r, aid, title)[1], streamer_name, timestamp))
            /\ calls' = Append(calls, Call("spawn", cmd'[1].proxies))
            /\ Goto("spawn")
    /\ seen' = SeenAt(pc', [seen EXCEPT !.view = Some(r)])
    /\ UNCHANGED <<cf, wg_process, wait_left, proxy_str, poll_interval, streamer_name, session, exit_status,
                   children, cancel_requested, recorder_missing>>

\* create_subprocess_exec returns a process or raises (lines 175-195).
SpawnResult(outcome) ==
    /\ pc = "spawn"
    /\ cmd' = None
    /\ IF outcome = "ok"
       THEN /\ Len(children) < MaxChildren
            /\ children' = Append(children, cmd[1])
            /\ IF AfterSpawn = "recording" THEN Goto("recording") ELSE Sleep("cooldown", "recorded")
            /\ UNCHANGED <<exit_status, recorder_missing>>
       ELSE /\ children' = children
            /\ recorder_missing' = (recorder_missing \/ outcome = "FileNotFoundError")
            /\ IF RecordOnException(outcome) = "none"
               THEN /\ Sleep("cooldown", "spawn_failed")
                    /\ UNCHANGED exit_status
               ELSE /\ RaisedInTry(RecordOnException(outcome), "spawn_failed")
                    /\ exit_status' = IF RecordOnException(outcome) = "SystemExit"
                                      THEN Some(EXIT_MISSING) ELSE exit_status
    /\ seen' = SeenAt(pc', seen)
    /\ UNCHANGED <<cf, wg_process, wait_left, proxy_str, poll_interval, streamer_name, session, temp_session,
                   broad_no, title, aid, calls, cancel_requested>>

\* A streamlink child exits.  communicate() of the process record_stream
\* waits on (the one spawned last) then returns (lines 184-189, 204-205).
ChildExit(i, code) ==
    /\ i \in 1..Len(children)
    /\ children' = SubSeq(children, 1, i - 1) \o SubSeq(children, i + 1, Len(children))
    /\ IF pc = "recording" /\ i = Len(children)
       THEN Sleep("cooldown", "recorded")
       ELSE UNCHANGED <<pc, exit, sleep_for, sleep_left, after>>
    /\ seen' = SeenAt(pc', seen)
    /\ UNCHANGED <<cf, wg_process, wait_left, proxy_str, poll_interval, streamer_name, session, temp_session,
                   exit_status, broad_no, title, aid, cmd, calls,
                   cancel_requested, recorder_missing>>

\* One second of a sleep elapses.
Tick ==
    /\ pc \in Sleeps
    /\ sleep_left > 0
    /\ sleep_left' = sleep_left - 1
    /\ UNCHANGED <<cf, wg_process, wait_left, proxy_str, poll_interval, streamer_name, session, temp_session, pc,
                   exit, exit_status, sleep_for, broad_no, title, aid, cmd, children,
                   calls, seen, after, cancel_requested, recorder_missing>>

\* asyncio.sleep returns; the loop iterates and probes again.
Wake ==
    /\ pc \in Sleeps
    /\ sleep_left = 0
    /\ IssueProbe
    /\ UNCHANGED <<cf, wg_process, wait_left, proxy_str, poll_interval, streamer_name, session, exit_status,
                   cmd, children, cancel_requested, recorder_missing>>

\* The main task is cancelled: CancelledError is thrown at the await it is
\* suspended at.  Nothing in record_stream or run signals the child, which
\* stays in `children`; a spawn cancelled before create_subprocess_exec
\* returned leaves no process.
Cancel ==
    /\ pc \in {"probe", "token", "resolve", "spawn", "recording"} \cup Sleeps
    /\ cancel_requested' = TRUE
    /\ temp_session' = Closed(temp_session)
    /\ cmd' = None
    /\ ClearLocals
    /\ IF pc = "err_sleep"
       THEN EndRun("CancelledError")
       ELSE IF pc = "token" /\ IsException("CancelledError")
       THEN NotLive
       ELSE IF pc \in {"probe", "resolve"} /\ IsException("CancelledError")
       THEN NotLive
       ELSE IF pc \in {"spawn", "recording"} /\ RecordOnException("CancelledError") = "none"
       THEN Sleep("cooldown", "recorded")
       ELSE RaisedInTry("CancelledError", "cancelled")
    /\ seen' = SeenAt(pc', seen)
    /\ UNCHANGED <<cf, wg_process, wait_left, proxy_str, poll_interval, streamer_name, session, exit_status,
                   children, calls, recorder_missing>>

\* main, lines 272-278: leaving the `async with` closes the long-lived session.
AExit ==
    /\ pc = "run_end"
    /\ session' = Closed(session)
    /\ Goto("exited")
    /\ UNCHANGED <<cf, wg_process, wait_left, proxy_str, poll_interval, streamer_name, temp_session, exit_status,
                   broad_no, title, aid, cmd, children, calls, seen,
                   cancel_requested, recorder_missing>>

\* Variant: the timeout of wait is passed over and nothing is killed.
WaitExpired_Pass(state) == state

\* wg_process.wait(timeout=3) raised TimeoutExpired: the bare except of
\* lines 289-290 kills the helper.
WaitExpired(state) == IF state = "exited" THEN "exited" ELSE "killed"

\* Popen.terminate(): SIGTERM to a helper that has not exited yet.
Terminate(state) == IF state = "running" THEN "terminating" ELSE state

\* main's finally, lines 283-288: with a helper, terminate() then
\* wait(timeout=3) begins; without one main is over.
Finally ==
    /\ pc = "exited"
    /\ IF wg_process = "none"
       THEN /\ Goto("main_done")
            /\ UNCHANGED <<wg_process, wait_left>>
       ELSE /\ wg_process' = Terminate(wg_process)
            /\ wait_left' = WAIT_TIMEOUT
            /\ Goto("wg_wait")
    /\ UNCHANGED <<cf, proxy_str, poll_interval, streamer_name, session, temp_session,
                   exit_status, broad_no, title, aid, cmd, children, calls, seen,
                   cancel_requested, recorder_missing>>

\* One second of wait(timeout=3) elapses.
WaitTick ==
    /\ pc = "wg_wait"
    /\ wait_left > 0
    /\ wait_left' = wait_left - 1
    /\ UNCHANGED <<cf, wg_process, run_state>>

\* wait returns: the helper has exited.
WaitReturns ==
    /\ pc = "wg_wait"
    /\ wg_process = "exited"
    /\ Goto("main_done")
    /\ UNCHANGED <<cf, wg_process, wait_left, proxy_str, poll_interval, streamer_name,
                   session, temp_session, exit_status, broad_no, title, aid, cmd,
                   children, calls, seen, cancel_requested, recorder_missing>>

\* wait raises TimeoutExpired after 3 seconds (lines 288-290).
WaitTimeout ==
    /\ pc = "wg_wait"
    /\ wait_left = 0
    /\ wg_process # "exited"
    /\ wg_process' = WaitExpired(wg_process)
    /\ Goto("main_done")
    /\ UNCHANGED <<cf, wait_left, proxy_str, poll_interval, streamer_name,
                   session, temp_session, exit_status, broad_no, title, aid, cmd,
                   children, calls, seen, cancel_requested, recorder_missing>>

\* The helper exits, by itself or on the SIGTERM of terminate().
HelperExit ==
    /\ wg_process \in {"running", "terminating"}
    /\ pc # "main_done"
    /\ wg_process' = "exited"
    /\ UNCHANGED <<cf, wait_left, run_state>>

\* Every step of the recorder but cancellation.
Progress ==
    \/ AEnter
    \/ RunStart
    \/ \E r \in MetaResponses : ProbeResponse(r)
    \/ \E r \in TokenResponses : TokenResponse(r)
    \/ \E r \in ViewResponses, timestamp \in Timestamps : ViewResponse(r, timestamp)
    \/ \E outcome \in SpawnOutcomes : SpawnResult(outcome)
    \/ \E i \in 1..MaxChildren, code \in ExitCodes : ChildExit(i, code)
    \/ Tick
    \/ Wake
    \/ AExit

\* The recorder: what runs inside the `async with` of main.
RunNext == Progress \/ Cancel

\* main after the `async with`, and its helper.
MainEnd ==
    \/ Finally
    \/ WaitTick
    \/ WaitReturns
    \/ WaitTimeout
    \/ HelperExit

Next == RunNext \/ MainEnd

Spec == Init /\ [][Next]_vars

\* Every request carries a timeout, every sleep ends and the recorder exits
\* in the end; cancellation may never come.  This is the recorder up to the
\* end of the `async with`.  The proxy setting, which no branch of the loop
\* reads, is left unset, and the poll interval is the shortest or the longest.
FairInit == Init /\ wg_process = "none" /\ proxy_str = None /\ poll_interval \in {0, MaxPoll}
FairSpec == FairInit /\ [][RunNext]_vars /\ WF_vars(Progress)

\* --------------------------------------------- clean_filename on its own

\* clean_filename is applied to a title or display name, to its own result,
\* and the result is placed in the output path of record_stream (152-155).
CleanInit ==
    /\ cf \in {[arg |-> Some(x), once |-> None, twice |-> None, path |-> None] : x \in Names}
    /\ wg_process = "none"
    /\ wait_left = 0
    /\ proxy_str = None
    /\ poll_interval = 0
    /\ streamer_name = JStr(StreamerId)
    /\ session = None
    /\ temp_session = None
    /\ pc = "clean"
    /\ exit = "none"
    /\ exit_status = None
    /\ sleep_for = 0
    /\ sleep_left = 0
    /\ broad_no = JNull
    /\ title = JNull
    /\ aid = JNull
    /\ cmd = None
    /\ children = <<>>
    /\ calls = <<>>
    /\ seen = NoneSeen
    /\ after = "none"
    /\ cancel_requested = FALSE
    /\ recorder_missing = FALSE

run_vars == <<wg_process, wait_left, run_state>>

CleanOnce ==
    /\ pc = "clean" /\ cf.once = None
    /\ cf' = [cf EXCEPT !.once = Some(clean_filename(cf.arg[1]))]
    /\ UNCHANGED run_vars

CleanTwice ==
    /\ pc = "clean" /\ cf.once # None /\ cf.twice = None
    /\ cf' = [cf EXCEPT !.twice = Some(clean_filename(cf.once[1]))]
    /\ UNCHANGED run_vars

\* The cleaned string as display name and as title of the output file.
CleanPath(timestamp) ==
    /\ pc = "clean" /\ cf.once # None /\ cf.path = None
    /\ cf' = [cf EXCEPT !.path = Some(OutputPath(cf.once[1], timestamp, cf.once[1]))]
    /\ UNCHANGED run_vars

CleanNext ==
    \/ CleanOnce
    \/ CleanTwice
    \/ \E timestamp \in Timestamps : CleanPath(timestamp)

CleanSpec == CleanInit /\ [][CleanNext]_vars

\* ---------------------------------------------------------------- claims

Ended == pc \in {"run_end", "exited", "wg_wait", "main_done"}
Kinds(cs) == [i \in 1..Len(cs) |-> cs[i].kind]
Started(kind) == \E i \in 1..Len(calls) : calls[i].kind = kind

\* The part of a path after its last separator.
BaseName(path) ==
    LET seps == {i \in 1..Len(path) : path[i] = "/"}
        last == IF seps = {} THEN 0 ELSE CHOOSE i \in seps : \A j \in seps : j <= i
    IN SubSeq(path, last + 1, Len(path))

C2_CancelTerminatesChild == (cancel_requested /\ Ended) => children = <<>>

\* C3: cooldown.  A recording attempt that completed is followed by the
\* 60-second sleep, and a probe that follows it is issued only once those
\* 60 seconds have elapsed in full.
C3_Cooldown ==
    /\ (after = "recorded" /\ pc \in Sleeps) => (pc = "cooldown" /\ sleep_for = COOLDOWN)
    /\ (after = "recorded" /\ pc = "probe") => (sleep_for = COOLDOWN /\ sleep_left = 0)

C3_Witness == after = "recorded" /\ pc = "probe"

\* C4: check_stream_status never raises an exception into run, whatever the
\* responses hold.
C4_NeverRaises == after # "check_raised"

\* The task was cancelled or the recorder executable was found missing.
Stopped == cancel_requested \/ recorder_missing

\* C5: run ends only by cancellation or by the missing recorder; until then
\* the loop keeps reaching a sleep and keeps issuing another probe, whatever
\* the responses, the spawn outcomes and the recorder's exit codes.
C5_LoopOnlyEndsByCancelOrFatal ==
    /\ [](Ended => Stopped)
    /\ []<>(pc \in Sleeps \/ Stopped)
    /\ []<>(pc = "probe" \/ Stopped)

C5_Witness == pc = "probe" /\ after \in {"check_raised", "record_raised"}

\* C6: once launching the recorder failed with executable-not-found, run has
\* ended by SystemExit with a non-zero status, and the failed spawn stays the
\* last call made: no probe, token request, resolution or spawn follows.
C6_FatalRecorderMissing ==
    recorder_missing =>
        /\ Ended
        /\ exit = "SystemExit"
        /\ exit_status # None /\ exit_status[1] # 0
        /\ Kinds(calls) = <<"probe", "token", "resolve", "spawn">>

C6_Witness == recorder_missing /\ pc = "exited"

\* The token endpoint answered with a RESULT other than the success value.
Refused ==
    /\ seen.token # None
    /\ seen.token[1].channel = "object"
    /\ seen.token[1].result # None
    /\ seen.token[1].result[1] # RESULT_OK

\* C7: token refused.  When the token endpoint answered with a RESULT other
\* than 1, the iteration starts no resolution and no recording, sleeps
\* poll_interval, and leaves that sleep only to probe again (or cancelled).
C7_TokenRefused ==
    /\ [](Refused =>
            /\ ~Started("resolve") /\ ~Started("spawn")
            /\ \/ pc = "poll_sleep" /\ sleep_for = poll_interval
               \/ cancel_requested /\ Ended)
    /\ [][(Refused /\ pc = "poll_sleep" /\ pc' # "poll_sleep") =>
            ((pc' = "probe" /\ sleep_left = 0) \/ cancel_requested')]_vars

C7_Witness == Refused /\ pc = "poll_sleep" /\ sleep_left = 0

\* The station response of this iteration carries no live broadcast.
NoBroadcast ==
    /\ seen.meta # None
    /\ \/ seen.meta[1].outcome # "ok"
       \/ seen.meta[1].broad \in {"absent", "null", "empty"}

\* C8: when the probe gave no live-broadcast data (request failed, body
\* undecodable, or no `broad` in it), the iteration starts no token request
\* and no resolution.
C8_NoTokenWithoutBroadcast ==
    NoBroadcast => (~Started("token") /\ ~Started("resolve") /\ ~Started("spawn"))

C8_Witness == NoBroadcast /\ seen.meta[1].top = "object" /\ pc = "poll_sleep"

\* A proxy endpoint is configured.
ProxyConfigured == proxy_str # None /\ proxy_str[1] # ""

\* C9: proxy routing.  Of the calls made, exactly the token requests under a
\* configured proxy go through the proxy; probe, resolution and the recorder
\* go direct, and so does every call when no proxy is configured.
C9_ProxyRouting ==
    \A i \in 1..Len(calls) :
        calls[i].route =
            IF calls[i].kind = "token" /\ ProxyConfigured THEN "proxy" ELSE "direct"

C9_Witness == ProxyConfigured /\ pc = "recording"

\* The command c is the one this iteration's responses call for.
LaunchedAs(c) ==
    /\ c.url = seen.view[1].view_url[1].s \o <<"?", "a", "i", "d", "=">>
                    \o seen.token[1].aid[1].s
    /\ Contains(BaseName(c.out), clean_filename(seen.meta[1].broad_title[1].s))
    /\ SubSeq(c.out, 1, Len(OutputDir) + 1) = OutputDir \o <<"/">>

\* C10: the recorder is launched with the URL view_url + "?aid=" + AID of
\* this iteration's responses and with an output path whose file name holds
\* the sanitized broadcast title.
C10_PlaybackAddress ==
    /\ pc = "spawn" => (cmd # None /\ LaunchedAs(cmd[1]))
    /\ pc = "recording" => (children # <<>> /\ LaunchedAs(children[Len(children)]))

C10_Witness ==
    /\ pc = "recording"
    /\ seen.meta[1].broad_title[1].s = <<"a", "/">>
    /\ seen.view[1].view_url[1].s = <<"u", "?">>

\* A separator, alone or after "..": what lets a name leave its directory.
Separators == {"/", "\\"}
HasSeparator(s) == \E i \in 1..Len(s) : s[i] \in Separators
HasReserved(s) == \E i \in 1..Len(s) : s[i] \in {"\\", "/", "*", "?", ":", "\"", "<", ">", "|"}

\* C11: clean_filename is idempotent, its result holds no reserved character
\* and no separator (so no "../" or "..\"), and the output path built from
\* it is the output directory, one separator and a single component.
C11_CleanFilename ==
    /\ cf.once # None => (~HasReserved(cf.once[1]) /\ ~HasSeparator(cf.once[1]))
    /\ cf.twice # None => cf.twice[1] = cf.once[1]
    /\ cf.path # None =>
          /\ SubSeq(cf.path[1], 1, Len(OutputDir) + 1) = OutputDir \o <<"/">>
          /\ ~HasSeparator(SubSeq(cf.path[1], Len(OutputDir) + 2, Len(cf.path[1])))
          /\ BaseName(cf.path[1]) \notin {<<>>, <<".">>, <<".", ".">>}

C11_Witness ==
    /\ cf.arg = Some(<<".", ".", "/">>)
    /\ cf.twice # None
    /\ cf.path # None

\* The responses of the current iteration that a playback descriptor is built from.
FromThisIteration(c) ==
    /\ Kinds(calls) = <<"probe", "token", "resolve", "spawn">>
    /\ seen.meta # None /\ seen.meta[1].broad = "object"
    /\ seen.token # None /\ seen.token[1].aid # None
    /\ seen.view # None /\ seen.view[1].view_url # None
    /\ c.url = seen.view[1].view_url[1].s \o <<"?", "a", "i", "d", "=">> \o seen.token[1].aid[1].s

\* C12: at each probe nothing is left of an earlier iteration (no token, no
\* title, no descriptor); a descriptor exists only between its resolution and
\* its launch, and a launched recorder was given an address made of the token
\* and the view_url answered in the same iteration, whose calls are exactly
\* probe, token, resolve, spawn (one launch per descriptor).
C12_NoCarryOver ==
    /\ pc = "probe" => (aid = JNull /\ title = JNull /\ broad_no = JNull /\ cmd = None /\ seen = NoneSeen)
    /\ cmd # None => (pc = "spawn" /\ FromThisIteration(cmd[1]))
    /\ pc = "recording" => (cmd = None /\ FromThisIteration(children[Len(children)]))
    /\ pc \in Sleeps => (cmd = None /\ aid = JNull)

C12_Witness == pc = "recording" /\ after = "recorded" /\ seen.token[1].aid = Some(JStr(<<"k">>))

IsOpen(sess) == sess # None /\ sess[1].open

\* C13: a short-lived session is open only while its own request is in
\* flight, and once main has left the `async with` (after cancellation, the
\* fatal exit or any other exception) neither the long-lived session nor a
\* short-lived one is open.
C13_SessionsClosed ==
    /\ IsOpen(temp_session) => pc \in {"probe", "resolve"}
    /\ pc \in {"exited", "wg_wait", "main_done"} => (session # None /\ ~IsOpen(session) /\ ~IsOpen(temp_session))

C13_Witness == pc = "main_done" /\ exit = "SystemExit" /\ session # None /\ ~IsOpen(session)

NoRecording == after \in {"norecord", "check_raised", "record_raised"}

\* C14: a sleep that follows a cycle without a launch (offline, failed or
\* malformed response, token refused, no view_url, exception caught by run)
\* is a sleep of poll_interval seconds, never of 60, and the next probe is
\* sent when all of it has elapsed.
C14_PollIntervalSleep ==
    /\ (pc \in Sleeps /\ (NoRecording \/ ~Started("spawn"))) =>
           (pc \in {"poll_sleep", "err_sleep"} /\ sleep_for = poll_interval)
    /\ (pc = "probe" /\ NoRecording) => (sleep_for = poll_interval /\ sleep_left = 0)

C14_Witness == pc = "err_sleep" /\ after = "check_raised" /\ poll_interval = MaxPoll /\ sleep_left = 0

\* The original reading: without a nick in the response the name is kept.
C15_NameKeptWithoutNick ==
    [][(pc = "probe" /\ seen'.meta # None) =>
          streamer_name' = IF seen'.meta[1].user_nick # None
                           THEN seen'.meta[1].user_nick[1]
                           ELSE streamer_name]_vars

\* Line 116 is reached: the response decoded to an object whose "station",
\* if any, is an object.
ReachedNameUpdate(r) == r.outcome = "ok" /\ r.top = "object" /\ r.station # "other"

\* C15: a probe sets streamer_name to the user_nick of the response when it
\* has one, resets it to the streamer id when the decoded response has
\* none, and leaves it alone only when the probe fails before line 116.
C15_DisplayName ==
    [][(pc = "probe" /\ seen'.meta # None) =>
          streamer_name' = IF seen'.meta[1].user_nick # None
                           THEN seen'.meta[1].user_nick[1]
                           ELSE IF ReachedNameUpdate(seen'.meta[1])
                           THEN JStr(StreamerId)
                           ELSE streamer_name]_vars

C15_Witness ==
    /\ after # "none" /\ pc = "poll_sleep"
    /\ seen.meta # None /\ seen.meta[1].station = "object" /\ seen.meta[1].user_nick = None
    /\ streamer_name = JStr(StreamerId)

NonEmptyStr(v) == v.t = "str" /\ Len(v.s) > 0
Resolved == seen.view # None /\ seen.view[1].view_url # None /\ NonEmptyStr(seen.view[1].view_url[1])
Granted ==
    /\ seen.token # None /\ seen.token[1].channel = "object"
    /\ seen.token[1].result = Some(RESULT_OK)
    /\ seen.token[1].aid # None /\ NonEmptyStr(seen.token[1].aid[1])
Live == seen.meta # None /\ seen.meta[1].broad = "object"

\* record_stream was called in this iteration: it is about to launch, it
\* awaits the recorder, or it raised before the launch into run's handler.
AttemptMade == pc \in {"spawn", "recording"} \/ (pc = "err_sleep" /\ after = "record_raised")

\* C16: in a cycle whose resolution answered a view_url, record_stream has
\* been called by the time the scheduler next waits, with one probe and no
\* sleep in between; and record_stream is at work only in a cycle whose
\* probe was live, whose token was granted and whose view_url was present.
C16_RecordIffResolved ==
    /\ (Resolved /\ ~Ended) =>
          (AttemptMade /\ SubSeq(Kinds(calls), 1, 3) = <<"probe", "token", "resolve">>)
    /\ pc \in {"spawn", "recording"} => (Live /\ Granted /\ Resolved)

C16_Witness == pc = "spawn" /\ Resolved /\ after = "norecord"

\* C17: once cancellation is delivered, at whichever await, run has ended
\* (by break, or by the CancelledError itself out of the handler's sleep);
\* from then on no request is sent and no recorder is started.
C17_CancelStopsLoop ==
    /\ [](cancel_requested => (Ended /\ exit \in {"break", "CancelledError"}))
    /\ [][cancel_requested' => (calls' = calls /\ Len(children') <= Len(children) /\ cmd' = None)]_vars

C17_Witness == cancel_requested /\ exit = "CancelledError" /\ pc = "main_done"

HasBaseAndToken(url) ==
    \E i \in 2..(Len(url) - 5) : SubSeq(url, i, i + 4) = <<"?", "a", "i", "d", "=">>

\* C18: an address handed to the recorder is a non-empty view_url, "?aid="
\* and a non-empty token; a token answer without a non-empty AID, even with
\* RESULT 1, is followed by no resolution request and no launch, and a
\* resolution answer without a non-empty view_url by no launch.
C18_CompleteAddress ==
    /\ cmd # None => (HasBaseAndToken(cmd[1].url) /\ Granted /\ Resolved)
    /\ pc = "recording" => HasBaseAndToken(children[Len(children)].url)
    /\ (seen.token # None /\ (seen.token[1].aid = None \/ ~NonEmptyStr(seen.token[1].aid[1])))
          => (~Started("resolve") /\ ~Started("spawn"))
    /\ (seen.view # None /\ (seen.view[1].view_url = None \/ ~NonEmptyStr(seen.view[1].view_url[1])))
          => ~Started("spawn")

C18_Witness ==
    /\ pc = "poll_sleep" /\ seen.token # None
    /\ seen.token[1].result = Some(RESULT_OK) /\ seen.token[1].aid = Some(JStr(<<>>))

\* C19: after create_subprocess_exec raised something other than
\* FileNotFoundError, the scheduler sleeps the 60-second cooldown, probes
\* again when it has elapsed, and the program goes on.
C19_SpawnErrorSwallowed ==
    /\ (after = "spawn_failed" /\ pc \in Sleeps) => (pc = "cooldown" /\ sleep_for = COOLDOWN)
    /\ (after = "spawn_failed" /\ pc = "probe") => (sleep_for = COOLDOWN /\ sleep_left = 0)
    /\ (after = "spawn_failed" /\ ~Stopped) => (~Ended /\ exit = "none" /\ exit_status = None)

C19_Witness == after = "spawn_failed" /\ pc = "probe" /\ children = <<>>

\* C20: when main is over, a helper it had started is not running: it was
\* sent SIGTERM on every way out of the scheduler, and killed when the
\* 3 seconds of wait elapsed without its exit, not earlier.
C20_HelperStopped ==
    /\ pc = "main_done" => wg_process \in {"none", "exited", "killed"}
    /\ pc = "wg_wait" => (wg_process \in {"terminating", "exited"} /\ wait_left <= WAIT_TIMEOUT)
    /\ wg_process = "terminating" => pc = "wg_wait"
    /\ wg_process = "killed" => (pc = "main_done" /\ wait_left = 0)

C20_Witness == pc = "main_done" /\ wg_process = "killed" /\ exit = "SystemExit"

====
